---- MODULE Spec2Model ----
(***************************************************************************)
(* A model of the mail_filter pipelines:                                   *)
(*   get_emails.py          IMAP extraction into emails.csv                *)
(*   mbox_to_csv.py         archive (zip/mbox) extraction into emails.csv  *)
(*   mail_auto_annotation.py annotation of emails.csv into                 *)
(*                          labeled_emails.jsonl, with the salvage parser  *)
(*                          parse_json_response                            *)
(* One behaviour runs one program (prog), possibly several times in a row  *)
(* (a rerun after a normal end, an exit or a kill of the process).         *)
(***************************************************************************)
EXTENDS Integers, Sequences, FiniteSets, TLC

VARIABLES
  prog,                  \* which script this behaviour runs
  pc,                    \* position of the running script
  run,                   \* number of the current run of the script
  faults,                \* faults so far: exceptions raised (but for failed requests)
                         \* and kills of the process, over all runs
  clean,                 \* TRUE while no exception was raised in the current run
  sleeps,                \* inter-batch pauses (time.sleep) taken in the current run
  handled,               \* items the current run has taken up, in order
  appended,              \* number of records the current run has written to its output
  run_start,             \* what the current run found when it started: the completed
                         \* ids it loaded and the ids with a record in its output file
  emails_csv,            \* the file emails.csv
  email_checkpoint,      \* the file email_checkpoint.json
  annotation_checkpoint, \* the file annotation_checkpoint.json
  labeled_jsonl,         \* the file labeled_emails.jsonl
  mbox_checkpoint,       \* the file mbox_checkpoint.json
  temp_dir,              \* mbox_to_csv.main: TRUE while the directory temp_dir exists
  processed_ids,         \* get_emails.main (a list) and annotate (a set): processed_ids
  sampled_ids,           \* get_emails.main: sampled_ids
  remaining_ids,         \* get_emails.main: remaining_ids; annotate: remaining_df
  batch_start,           \* get_emails.main and process_mbox_file: batch_start
  batch_end,             \* get_emails.main: batch_end
  batch_records,         \* get_emails.main: batch_records
  idx,                   \* annotate: number of rows of remaining_df already iterated
  batch_counter,         \* annotate: batch_counter
  retry_count,           \* annotate: retry_count
  zips,                  \* the archives on disk: for each, "corrupt" or its message count
  processed_count,       \* mbox_to_csv.main: processed_count
  current_zip,           \* mbox_to_csv.main: current_zip (0 is None)
  processed_zips,        \* mbox_to_csv.main: processed_zips
  remaining_zips,        \* mbox_to_csv.main: remaining_zips
  zip_index,             \* mbox_to_csv.main: number of remaining_zips already iterated
  total_count,           \* process_mbox_file: total_count
  text,                  \* annotate / parse_json_response: text
  obj,                   \* annotate: obj, the value parse_json_response returned
  raw_msg,               \* the message handed to the body extraction
  text_body              \* the body each script extracts from raw_msg

faultVars == <<faults, clean>>
progVars == <<prog, pc, run, faultVars, sleeps, handled, appended, run_start>>
diskVars == <<emails_csv, email_checkpoint, annotation_checkpoint, labeled_jsonl,
              mbox_checkpoint, temp_dir>>
batchVars == <<processed_ids, sampled_ids, remaining_ids, batch_start, batch_end,
               batch_records>>
annotVars == <<idx, batch_counter, retry_count>>
mboxVars == <<zips, processed_count, current_zip, processed_zips, remaining_zips,
              zip_index, total_count>>
parseVars == <<text, obj>>
extractVars == <<raw_msg, text_body>>
vars == <<progVars, diskVars, batchVars, annotVars, mboxVars, parseVars, extractVars>>

\* what the actions of one script never change
imapFrame == <<prog, run, annotation_checkpoint, labeled_jsonl, mbox_checkpoint, temp_dir,
               annotVars, mboxVars, parseVars, extractVars>>
annotFrame == <<prog, run, sleeps, emails_csv, email_checkpoint, mbox_checkpoint, temp_dir,
                sampled_ids, batch_start, batch_end, batch_records, mboxVars, extractVars>>
mboxFrame == <<prog, run, sleeps, handled, run_start, email_checkpoint,
               annotation_checkpoint, labeled_jsonl, processed_ids, sampled_ids,
               remaining_ids, batch_end, batch_records, annotVars, zips, parseVars,
               extractVars>>

----------------------------------------------------------------------------
(* Bounds of the model *)

\* longest response text, in tokens, that the parser is run on exhaustively
MaxLen == 4

\* number of messages in the IMAP mailbox
MailboxSize == 3

\* runs of a script in one behaviour (the first run and the reruns)
MaxRuns == 2

\* faults in one behaviour: exceptions raised (but for failed requests, which
\* max_retries bounds) and kills of the process
MaxFaults == 1

\* rows of emails.csv that the annotation is run on
MaxRows == 3

\* archives matched by the glob pattern, and messages in one archive
NumUnits == 3
MsgsPerUnit == 3

\* parts of a multipart message handed to the body extraction
MaxParts == 3

----------------------------------------------------------------------------
(* Helpers on sequences *)

Range(s) == {s[i] : i \in 1..Len(s)}

Min(a, b) == IF a < b THEN a ELSE b

RECURSIVE SeqsUpTo(_, _)
SeqsUpTo(S, n) ==
  IF n = 0 THEN {<<>>}
  ELSE LET shorter == SeqsUpTo(S, n - 1)
       IN shorter \cup {Append(s, x) : s \in {t \in shorter : Len(t) = n - 1}, x \in S}

----------------------------------------------------------------------------
(* Response texts.  A text is a sequence of tokens:                        *)
(*   "bt" a run of backticks          "nl" a newline      "sp" a blank     *)
(*   "{" "}" braces                   "k"  the members                     *)
(*   "importance":4,"reason":"urgent bill","confidence":0.8                *)
(*   "n"  a JSON scalar (a number)    "j"  text that is not JSON           *)

Tokens == {"bt", "nl", "sp", "{", "}", "k", "n", "j"}

Whitespace == {"nl", "sp"}

\* the fenced, newline-wrapped object: fence, newline, {members}, newline, fence
FencedExample == <<"bt", "nl", "{", "k", "}", "nl", "bt">>

\* not json at all
NotJsonExample == <<"j", "sp", "j", "sp", "j", "sp", "j">>

\* {members}, {} and {members} spread over several lines
PlainObject == <<"{", "k", "}">>
Objects == {PlainObject, <<"{", "}">>, <<"{", "nl", "k", "nl", "}">>}

\* An object in a code fence: the fence, an optional language tag, newlines, the
\* object, newlines, the fence
Fences ==
  {[open |-> <<"bt">> \o tag \o nls, close |-> nls2 \o <<"bt">>] :
     tag \in {<<>>, <<"j">>}, nls \in {<<"nl">>, <<"nl", "nl">>},
     nls2 \in {<<"nl">>, <<"nl", "nl">>}}
Fenced(f, o) == f.open \o o \o f.close
FencedTexts == {Fenced(f, o) : f \in Fences, o \in Objects}

Texts == SeqsUpTo(Tokens, MaxLen) \cup FencedTexts \cup {FencedExample, NotJsonExample}

\* str.strip(): leading and trailing whitespace removed
RECURSIVE strip(_)
strip(s) ==
  IF s = <<>> THEN s
  ELSE IF Head(s) \in Whitespace THEN strip(Tail(s))
  ELSE IF s[Len(s)] \in Whitespace THEN strip(SubSeq(s, 1, Len(s) - 1))
  ELSE s

\* str.strip of the backtick character: leading and trailing backticks removed
RECURSIVE strip_backticks(_)
strip_backticks(s) ==
  IF s = <<>> THEN s
  ELSE IF Head(s) = "bt" THEN strip_backticks(Tail(s))
  ELSE IF s[Len(s)] = "bt" THEN strip_backticks(SubSeq(s, 1, Len(s) - 1))
  ELSE s

\* text.replace("\n", "")
remove_newlines(s) == SelectSeq(s, LAMBDA c : c # "nl")

\* str.find(c): 0-based index of the first c, -1 when there is none
find(s, c) ==
  IF c \in Range(s) THEN (CHOOSE i \in 1..Len(s) : s[i] = c /\ \A j \in 1..(i - 1) : s[j] # c) - 1
  ELSE -1

\* str.rfind(c): 0-based index of the last c, -1 when there is none
rfind(s, c) ==
  IF c \in Range(s) THEN (CHOOSE i \in 1..Len(s) : s[i] = c /\ \A j \in (i + 1)..Len(s) : s[j] # c) - 1
  ELSE -1

\* s[start:end] for 0 <= start, 0 <= end
slice(s, start, end) == SubSeq(s, start + 1, Min(end, Len(s)))

\* Parsed JSON values: a dict with the keys it holds, or a scalar
AllKeys == {"importance", "reason", "confidence"}

UrgentBill == [type |-> "dict", keys |-> AllKeys,
               importance |-> 4, reason |-> "urgent bill", confidence |-> "0.8"]

EmptyDict == [type |-> "dict", keys |-> {},
              importance |-> 0, reason |-> "", confidence |-> ""]

Scalar == [type |-> "scalar", keys |-> {},
           importance |-> 0, reason |-> "", confidence |-> ""]

NoValue == [type |-> "none", keys |-> {},
            importance |-> 0, reason |-> "", confidence |-> ""]

\* the dict parse_json_response returns when every attempt failed
\* (its reason is the source's Japanese string for "JSON parse failed")
Sentinel == [type |-> "dict", keys |-> AllKeys,
             importance |-> -1, reason |-> "JSON parse failed", confidence |-> "0.0"]

\* json.loads: whitespace between JSON tokens is insignificant; the documents
\* of this token language are {}, {members} and a scalar.
json_loads(s) ==
  LET t == SelectSeq(s, LAMBDA c : c \notin Whitespace)
  IN IF t = <<"{", "}">> THEN [ok |-> TRUE, value |-> EmptyDict]
     ELSE IF t = <<"{", "k", "}">> THEN [ok |-> TRUE, value |-> UrgentBill]
     ELSE IF t = <<"n">> THEN [ok |-> TRUE, value |-> Scalar]
     ELSE [ok |-> FALSE, value |-> NoValue]

max_parse_retries == 3

\* cleaned_text with the slice ending at the last brace instead of after it
cleaned_text_short_slice(t) ==
  LET c1 == remove_newlines(t)
      c2 == strip(strip_backticks(c1))
  IN IF "{" \in Range(c2) /\ "}" \in Range(c2)
     THEN slice(c2, find(c2, "{"), rfind(c2, "}"))
     ELSE c2

\* the text one salvage attempt hands to json.loads
cleaned_text(t) ==
  LET c1 == remove_newlines(t)
      c2 == strip(strip_backticks(c1))
  IN IF "{" \in Range(c2) /\ "}" \in Range(c2)
     THEN slice(c2, find(c2, "{"), rfind(c2, "}") + 1)
     ELSE c2

\* the while loop giving an empty dict, not the sentinel, when it gives up
salvage_empty_dict(t, parse_retries) ==
  LET r == json_loads(cleaned_text(t))
  IN IF r.ok THEN r.value ELSE EmptyDict

\* the while loop of parse_json_response
RECURSIVE salvage(_, _)
salvage(t, parse_retries) ==
  IF parse_retries < max_parse_retries
  THEN LET r == json_loads(cleaned_text(t))
       IN IF r.ok THEN r.value ELSE salvage(t, parse_retries + 1)
  ELSE Sentinel

parse_json_response(t) ==
  LET r == json_loads(t)
  IN IF r.ok THEN r.value ELSE salvage(t, 0)

----------------------------------------------------------------------------
(* Files, rows and message ids *)

\* A message id is bytes in memory (imap.search) and str in the files; the id
\* process_mbox_file makes up for a message without Message-ID is "no-id-<v>"
Bytes(n) == [type |-> "bytes", v |-> n]
Str(n) == [type |-> "str", v |-> n]
NoId(n) == [type |-> "no-id", v |-> n]

\* id.decode() if isinstance(id, bytes) else id
decode(id) == IF id.type = "bytes" THEN Str(id.v) ELSE id

\* id.encode() if isinstance(id, str) else id
encode(id) == IF id.type = "str" THEN Bytes(id.v) ELSE id

MapSeq(f(_), s) == [i \in 1..Len(s) |-> f(s[i])]

\* The body of a record: the message it was extracted from, and whether the
\* extracted text is the empty string (no plain-text part, or undecodable)
Body(msg, empty) == [msg |-> msg, empty |-> empty]

\* Rows of emails.csv
Header == [kind |-> "header", message_id |-> Str(0), body |-> Body(0, FALSE)]
OtherHeader == [kind |-> "other_header", message_id |-> Str(0), body |-> Body(0, FALSE)]
Record(id, body) == [kind |-> "record", message_id |-> id, body |-> body]

NoCsv == [exists |-> FALSE, rows |-> <<>>]
NoImapCheckpoint == [exists |-> FALSE, processed_ids |-> <<>>, sampled_ids |-> <<>>]
NoAnnotationCheckpoint == [exists |-> FALSE, processed_ids |-> {}]
NoJsonl == [exists |-> FALSE, rows |-> <<>>]
NoMboxCheckpoint == [exists |-> FALSE, processed_count |-> 0, current_zip |-> 0,
                     processed_zips |-> <<>>]

NoRunStart == [loaded |-> FALSE, completed |-> {}, written |-> <<>>]

\* the ids of the records of an output file, in file order
RecordIds(file) ==
  MapSeq(LAMBDA r : r.message_id, SelectSeq(file.rows, LAMBDA r : r.kind = "record"))

\* how many times x occurs in the sequence s
Count(s, x) == Cardinality({i \in 1..Len(s) : s[i] = x})

\* for every id of the sequence s, how many records s holds for it
Tally(s) == [x \in Range(s) |-> Count(s, x)]

\* no message handed over, nothing extracted
NoMessage == [multipart |-> FALSE, parts |-> <<>>]
NoBody == [imap |-> [raised |-> FALSE, body |-> ""], mbox |-> [raised |-> FALSE, body |-> ""]]

\* Everything but prog, pc, text, emails_csv and zips before the first run
Fresh ==
  /\ run = 1 /\ faults = 0 /\ clean = TRUE /\ sleeps = 0 /\ handled = <<>> /\ appended = 0
  /\ run_start = NoRunStart
  /\ email_checkpoint = NoImapCheckpoint
  /\ annotation_checkpoint = NoAnnotationCheckpoint
  /\ labeled_jsonl = NoJsonl
  /\ mbox_checkpoint = NoMboxCheckpoint
  /\ temp_dir = FALSE
  /\ processed_ids = (IF prog = "annot" THEN {} ELSE <<>>)
  /\ sampled_ids = <<>> /\ remaining_ids = <<>>
  /\ batch_start = 0 /\ batch_end = 0 /\ batch_records = <<>>
  /\ idx = 0 /\ batch_counter = 0 /\ retry_count = 0
  /\ processed_count = 0 /\ current_zip = 0 /\ processed_zips = <<>>
  /\ remaining_zips = <<>> /\ zip_index = 0 /\ total_count = 0
  /\ obj = NoValue
  /\ text_body = NoBody
  /\ prog # "extract" => raw_msg = NoMessage

\* The memory of a process that is gone, or not yet started
NoMemory ==
  /\ processed_ids' = (IF prog = "annot" THEN {} ELSE <<>>)
  /\ sampled_ids' = <<>> /\ remaining_ids' = <<>>
  /\ batch_start' = 0 /\ batch_end' = 0 /\ batch_records' = <<>>
  /\ idx' = 0 /\ batch_counter' = 0 /\ retry_count' = 0
  /\ processed_count' = 0 /\ current_zip' = 0 /\ processed_zips' = <<>>
  /\ remaining_zips' = <<>> /\ zip_index' = 0 /\ total_count' = 0
  /\ text' = <<>> /\ obj' = NoValue

----------------------------------------------------------------------------
(* get_emails.py *)

\* Scaled-down values of the settings (the source has 50000 and 500)
NUM_SAMPLES == 3
IMAP_BATCH_SIZE == 2

\* data[0].split() of imap.search(None, 'ALL')
all_ids == [i \in 1..MailboxSize |-> Bytes(i)]

\* random.sample(all_ids, k): any arrangement of k distinct ids
Arrangements(k) ==
  {s \in SeqsUpTo(Range(all_ids), k) : Len(s) = k /\ Cardinality(Range(s)) = k}

\* the body extracted from mailbox message n: the last message of the mailbox
\* has no plain-text part
mail_body(n) == Body(n, n = MailboxSize)

\* save_checkpoint writing only the id processed last
save_checkpoint_last_only(processed, sampled) ==
  [exists |-> TRUE,
   processed_ids |-> IF processed = <<>> THEN <<>>
                    ELSE <<decode(processed[Len(processed)])>>,
   sampled_ids |-> MapSeq(decode, sampled)]

save_checkpoint(processed, sampled) ==
  [exists |-> TRUE,
   processed_ids |-> MapSeq(decode, processed),
   sampled_ids |-> MapSeq(decode, sampled)]

\* load_checkpoint: <<processed_ids, sampled_ids>>
load_checkpoint ==
  IF email_checkpoint.exists
  THEN <<MapSeq(encode, email_checkpoint.processed_ids),
         MapSeq(encode, email_checkpoint.sampled_ids)>>
  ELSE <<(<<>>), (<<>>)>>

write_csv_header == [exists |-> TRUE, rows |-> <<Header>>]

\* append_to_csv writing the header row on every call
append_to_csv_with_header(file, records) ==
  [exists |-> TRUE, rows |-> file.rows \o <<Header>> \o records]

append_to_csv(file, records) ==
  IF file.exists
  THEN [exists |-> TRUE, rows |-> file.rows \o records]
  ELSE [exists |-> TRUE, rows |-> <<Header>> \o records]

\* remaining_ids taken to be the whole sample
remaining_whole_sample(sampled, processed) == sampled

\* remaining_ids = [id for id in sampled_ids if id not in processed_ids]
remaining(sampled, processed) == SelectSeq(sampled, LAMBDA id : id \notin Range(processed))

InitImap ==
  /\ prog = "imap"
  /\ pc = "start"
  /\ text = <<>>
  /\ emails_csv = NoCsv
  /\ zips = <<>>
  /\ Fresh

\* main, lines 105-115: remaining_ids, the early return, batch_start = 0
ImapEnterLoop(sampled, processed) ==
  /\ remaining_ids' = remaining(sampled, processed)
  /\ batch_start' = 0
  /\ pc' = IF remaining(sampled, processed) = <<>> THEN "returned" ELSE "batch"

\* main, line 70 and, with a checkpoint that holds a sample, lines 105-115
ImapLoad ==
  /\ prog = "imap" /\ pc = "start"
  /\ processed_ids' = load_checkpoint[1]
  /\ sampled_ids' = load_checkpoint[2]
  /\ run_start' = [loaded |-> email_checkpoint.exists,
                   completed |-> Range(load_checkpoint[1]),
                   written |-> Tally(RecordIds(emails_csv))]
  /\ IF load_checkpoint[2] = <<>>
     THEN pc' = "init" /\ UNCHANGED <<remaining_ids, batch_start>>
     ELSE ImapEnterLoop(load_checkpoint[2], load_checkpoint[1])
  /\ UNCHANGED <<faultVars, sleeps, handled, appended, emails_csv, email_checkpoint,
                 batch_end, batch_records, imapFrame>>

\* main, lines 73-94 without an exception, then lines 105-115
ImapInit ==
  /\ prog = "imap" /\ pc = "init"
  /\ \E s \in Arrangements(Min(NUM_SAMPLES, Len(all_ids))) :
       /\ sampled_ids' = s
       /\ emails_csv' = write_csv_header
       /\ email_checkpoint' = save_checkpoint(processed_ids, s)
       /\ ImapEnterLoop(s, processed_ids)
  /\ UNCHANGED <<faultVars, sleeps, handled, appended, run_start, processed_ids, batch_end,
                 batch_records, imapFrame>>

\* main, lines 73-103 with an exception: raised by the connection or the search
\* (nothing written yet), by save_checkpoint (the header is written), or by
\* close/logout (header and checkpoint are written); sys.exit(1)
ImapInitError ==
  /\ prog = "imap" /\ pc = "init"
  /\ faults < MaxFaults
  /\ \E at \in {"connect", "save_checkpoint", "close"} :
       \E s \in Arrangements(Min(NUM_SAMPLES, Len(all_ids))) :
         /\ emails_csv' = IF at = "connect" THEN emails_csv ELSE write_csv_header
         /\ email_checkpoint' = IF at = "close" THEN save_checkpoint(processed_ids, s)
                                ELSE email_checkpoint
  /\ faults' = faults + 1
  /\ clean' = FALSE
  /\ pc' = "exit1"
  /\ UNCHANGED <<sleeps, handled, appended, run_start, batchVars, imapFrame>>

\* main, lines 117-154: connect, take the batch, fetch every message of it; a
\* message whose fetch or decoding raises is logged and left out
ImapFetchBatch ==
  /\ prog = "imap" /\ pc = "batch"
  /\ batch_start < Len(remaining_ids)
  /\ LET end == Min(batch_start + IMAP_BATCH_SIZE, Len(remaining_ids))
         current_batch == SubSeq(remaining_ids, batch_start + 1, end)
     IN \E failed \in SUBSET (1..Len(current_batch)) :
          LET fetched == SelectSeq(current_batch,
                           LAMBDA id : \A i \in failed : current_batch[i] # id)
          IN /\ faults + Cardinality(failed) <= MaxFaults
             /\ faults' = faults + Cardinality(failed)
             /\ clean' = (clean /\ failed = {})
             /\ batch_end' = end
             /\ batch_records' = MapSeq(LAMBDA id : Record(decode(id), mail_body(id.v)),
                                        fetched)
             /\ processed_ids' = processed_ids \o fetched
             /\ handled' = handled \o current_batch
  /\ pc' = "append"
  /\ UNCHANGED <<sleeps, appended, run_start, emails_csv, email_checkpoint, sampled_ids,
                 remaining_ids, batch_start, imapFrame>>

\* the append leaving out the records whose id the file holds already
ImapAppend_skips_written ==
  /\ prog = "imap" /\ pc = "append"
  /\ emails_csv' = append_to_csv(emails_csv,
                       SelectSeq(batch_records,
                                 LAMBDA r : Count(RecordIds(emails_csv), r.message_id) = 0))
  /\ appended' = appended + Len(batch_records)
  /\ pc' = "save"
  /\ UNCHANGED <<faultVars, sleeps, handled, run_start, email_checkpoint, batchVars, imapFrame>>

\* main, lines 156-158
ImapAppend ==
  /\ prog = "imap" /\ pc = "append"
  /\ emails_csv' = append_to_csv(emails_csv, batch_records)
  /\ appended' = appended + Len(batch_records)
  /\ pc' = "save"
  /\ UNCHANGED <<faultVars, sleeps, handled, run_start, email_checkpoint, batchVars, imapFrame>>

\* the save after a batch writing the ids that remain as the sample
ImapSave_saves_remaining ==
  /\ prog = "imap" /\ pc = "save"
  /\ email_checkpoint' = save_checkpoint(processed_ids, remaining_ids)
  /\ pc' = "close"
  /\ UNCHANGED <<faultVars, sleeps, handled, appended, run_start, emails_csv, batchVars,
                 imapFrame>>

\* main, lines 160-161
ImapSave ==
  /\ prog = "imap" /\ pc = "save"
  /\ email_checkpoint' = save_checkpoint(processed_ids, sampled_ids)
  /\ pc' = "close"
  /\ UNCHANGED <<faultVars, sleeps, handled, appended, run_start, emails_csv, batchVars,
                 imapFrame>>

\* main, lines 163-173: close, logout, next batch, the pause between batches
ImapNextBatch ==
  /\ prog = "imap" /\ pc = "close"
  /\ batch_start' = batch_end
  /\ sleeps' = IF batch_end < Len(remaining_ids) THEN sleeps + 1 ELSE sleeps
  /\ pc' = IF batch_end < Len(remaining_ids) THEN "batch" ELSE "finish"
  /\ UNCHANGED <<faultVars, handled, appended, run_start, emails_csv, email_checkpoint,
                 processed_ids, sampled_ids, remaining_ids, batch_end, batch_records,
                 imapFrame>>

\* the handlers giving the failed batch up and going on with the next one
ImapBatchError_skips_batch ==
  /\ prog = "imap" /\ pc \in {"batch", "append", "save", "close"}
  /\ faults < MaxFaults
  /\ \E kind \in {"IMAP4.error", "Exception"} :
       /\ kind = "IMAP4.error" => pc \in {"batch", "close"}
       /\ email_checkpoint' = IF kind = "Exception"
                              THEN save_checkpoint(processed_ids, sampled_ids)
                              ELSE email_checkpoint
  /\ faults' = faults + 1
  /\ clean' = FALSE
  /\ batch_start' = Min(batch_start + IMAP_BATCH_SIZE, Len(remaining_ids))
  /\ pc' = IF batch_start' < Len(remaining_ids) THEN "batch" ELSE "finish"
  /\ UNCHANGED <<sleeps, handled, appended, run_start, emails_csv, processed_ids,
                 sampled_ids, remaining_ids, batch_end, batch_records, imapFrame>>

\* main, lines 175-184: an exception raised in the batch body by get_connection
\* (pc = "batch"), append_to_csv, save_checkpoint or close/logout.  An
\* imaplib.IMAP4.error (raised by the IMAP calls only) sleeps and retries; any
\* other exception saves the checkpoint first.  batch_start is not advanced.
ImapBatchError ==
  /\ prog = "imap" /\ pc \in {"batch", "append", "save", "close"}
  /\ faults < MaxFaults
  /\ \E kind \in {"IMAP4.error", "Exception"} :
       /\ kind = "IMAP4.error" => pc \in {"batch", "close"}
       /\ email_checkpoint' = IF kind = "Exception"
                              THEN save_checkpoint(processed_ids, sampled_ids)
                              ELSE email_checkpoint
  /\ faults' = faults + 1
  /\ clean' = FALSE
  /\ pc' = "batch"
  /\ UNCHANGED <<sleeps, handled, appended, run_start, emails_csv, batchVars, imapFrame>>

\* the end of main leaving the checkpoint file in place
ImapFinish_keep_checkpoint ==
  /\ prog = "imap" /\ pc = "finish"
  /\ pc' = "done"
  /\ UNCHANGED <<faultVars, sleeps, handled, appended, run_start, emails_csv,
                 email_checkpoint, batchVars, imapFrame>>

\* main, lines 186-193
ImapFinish ==
  /\ prog = "imap" /\ pc = "finish"
  /\ email_checkpoint' = NoImapCheckpoint
  /\ pc' = "done"
  /\ UNCHANGED <<faultVars, sleeps, handled, appended, run_start, emails_csv, batchVars,
                 imapFrame>>

ImapNext ==
  \/ ImapLoad
  \/ ImapInit
  \/ ImapInitError
  \/ ImapFetchBatch
  \/ ImapAppend
  \/ ImapSave
  \/ ImapNextBatch
  \/ ImapBatchError
  \/ ImapFinish

----------------------------------------------------------------------------
(* mail_auto_annotation.py *)

\* one attempt more than the code allows
max_retries_one_more == 3 + 1

\* Scaled-down value of the setting (the source has 100)
ANNOT_BATCH_SIZE == 2

max_retries == 3

\* The emails.csv the annotation reads: a header and up to MaxRows records, or a
\* file without the columns message_id and body
AnnotInputs ==
  {[exists |-> TRUE,
    rows |-> <<Header>> \o [i \in 1..n |-> Record(Str(i), Body(i, i \in empty))]] :
     n \in 0..MaxRows, empty \in SUBSET (1..MaxRows)}
  \cup {[exists |-> TRUE, rows |-> <<OtherHeader>>]}

\* The texts the scoring service answers with
ResponseTexts == {PlainObject, FencedExample, NotJsonExample, <<"n">>}

\* save_checkpoint(list(processed_ids))
annot_save_checkpoint(processed) == [exists |-> TRUE, processed_ids |-> processed]

\* load_checkpoint forgetting what the file holds
annot_load_checkpoint_nothing == {}

\* load_checkpoint()
annot_load_checkpoint ==
  IF annotation_checkpoint.exists THEN annotation_checkpoint.processed_ids ELSE {}

\* pd.read_csv(INPUT_CSV): the rows under the header
read_csv(file) == Tail(file.rows)

\* isinstance(body, str): pandas reads an empty field as NaN, a float
is_str(body) == ~body.empty

\* obj.get(key, default)
get(o, key, default) == IF key \in o.keys THEN o[key] ELSE default

\* the record annotate writes for a row and the parsed answer
\* ("unknown" is the source's Japanese default reason)
annotation_record(row, o) ==
  [message_id |-> row.message_id,
   email_body |-> row.body,
   importance |-> get(o, "importance", 0),
   reason |-> get(o, "reason", "unknown"),
   confidence |-> get(o, "confidence", "0.0")]

\* the for loop goes on with the next row; text, obj and retry_count of the
\* finished iteration are not read again
NextRow ==
  /\ idx' = idx + 1
  /\ pc' = "item"
  /\ retry_count' = 0
  /\ text' = <<>>
  /\ obj' = NoValue

InitAnnot ==
  /\ prog = "annot"
  /\ pc = "start"
  /\ text = <<>>
  /\ emails_csv \in AnnotInputs
  /\ zips = <<>>
  /\ Fresh

\* annotate, lines 113-117 and the handlers of lines 247-249: emails.csv cannot
\* be read, or lacks a required column; sys.exit(1)
AnnotFatal ==
  /\ prog = "annot" /\ pc = "start"
  /\ ~emails_csv.exists \/ emails_csv.rows = <<>> \/ Head(emails_csv.rows) # Header
  /\ faults' = faults + 1
  /\ clean' = FALSE
  /\ pc' = "exit1"
  /\ UNCHANGED <<handled, appended, run_start, annotation_checkpoint, labeled_jsonl,
                 processed_ids, remaining_ids, annotVars, parseVars, annotFrame>>

\* annotate, lines 113-157: read the rows, load the checkpoint, choose the file
\* mode, take the rows that are not processed, return when there are none,
\* otherwise open the output (mode 'w' empties it)
AnnotStart ==
  /\ prog = "annot" /\ pc = "start"
  /\ emails_csv.exists /\ emails_csv.rows # <<>> /\ Head(emails_csv.rows) = Header
  /\ LET df == read_csv(emails_csv)
         loaded == annot_load_checkpoint
         file_mode == IF labeled_jsonl.exists /\ loaded # {} THEN "a" ELSE "w"
         remaining_df == SelectSeq(df, LAMBDA row : row.message_id \notin loaded)
     IN /\ processed_ids' = loaded
        /\ run_start' = [loaded |-> annotation_checkpoint.exists, completed |-> loaded,
                         written |-> Tally(MapSeq(LAMBDA r : r.message_id,
                                                  labeled_jsonl.rows))]
        /\ remaining_ids' = remaining_df
        /\ IF remaining_df = <<>>
           THEN pc' = "returned" /\ UNCHANGED labeled_jsonl
           ELSE /\ pc' = "item"
                /\ labeled_jsonl' = IF file_mode = "w"
                                    THEN [exists |-> TRUE, rows |-> <<>>]
                                    ELSE labeled_jsonl
  /\ idx' = 0
  /\ batch_counter' = 0
  /\ UNCHANGED <<faultVars, handled, appended, annotation_checkpoint, retry_count, parseVars,
                 annotFrame>>

\* annotate, lines 158-171: the next row; a row whose body is not a string is
\* marked processed and skipped
AnnotRow ==
  /\ prog = "annot" /\ pc = "item"
  /\ idx < Len(remaining_ids)
  /\ LET row == remaining_ids[idx + 1]
     IN /\ handled' = Append(handled, row.message_id)
        /\ IF ~is_str(row.body)
           THEN /\ processed_ids' = processed_ids \cup {row.message_id}
                /\ NextRow
           ELSE /\ retry_count' = 0
                /\ pc' = "request"
                /\ UNCHANGED <<processed_ids, idx, parseVars>>
  /\ UNCHANGED <<faultVars, appended, run_start, annotation_checkpoint, labeled_jsonl,
                 remaining_ids, batch_counter, annotFrame>>

\* annotate, lines 173-188: the request returns a text
AnnotResponse ==
  /\ prog = "annot" /\ pc = "request"
  /\ retry_count < max_retries
  /\ \E t \in ResponseTexts : text' = strip(t)
  /\ pc' = "parse"
  /\ UNCHANGED <<faultVars, handled, appended, run_start, annotation_checkpoint,
                 labeled_jsonl, processed_ids, remaining_ids, annotVars, obj, annotFrame>>

\* the handler of the row counting the row as processed when the attempts
\* are used up
AnnotRequestError_counts_row ==
  /\ prog = "annot" /\ pc = "request"
  /\ retry_count < max_retries
  /\ clean' = FALSE
  /\ UNCHANGED faults
  /\ retry_count' = retry_count + 1
  /\ IF retry_count + 1 >= max_retries
     THEN /\ idx' = idx + 1
          /\ pc' = "item"
          /\ text' = <<>>
          /\ obj' = NoValue
          /\ processed_ids' = processed_ids \cup {remaining_ids[idx + 1].message_id}
     ELSE UNCHANGED <<idx, pc, parseVars, processed_ids>>
  /\ UNCHANGED <<handled, appended, run_start, annotation_checkpoint, labeled_jsonl,
                 remaining_ids, batch_counter, annotFrame>>

\* annotate, lines 190-196 and 230-234: the request raises; it is tried again
\* until retry_count reaches max_retries, then the exception goes to the
\* handler of the row, which goes on with the next row (retry_count keeps its
\* value until the next request starts)
AnnotRequestError ==
  /\ prog = "annot" /\ pc = "request"
  /\ retry_count < max_retries
  /\ clean' = FALSE
  /\ UNCHANGED faults
  /\ retry_count' = retry_count + 1
  /\ IF retry_count + 1 >= max_retries
     THEN /\ idx' = idx + 1
          /\ pc' = "item"
          /\ text' = <<>>
          /\ obj' = NoValue
     ELSE UNCHANGED <<idx, pc, parseVars>>
  /\ UNCHANGED <<handled, appended, run_start, annotation_checkpoint, labeled_jsonl,
                 processed_ids, remaining_ids, batch_counter, annotFrame>>

\* annotate, lines 198-210 and 230-234: parse the text, build the record, write
\* and flush it; a parsed value that is no dict has no get and raises, and the
\* handler of the row goes on with the next row
AnnotWrite ==
  /\ prog = "annot" /\ pc = "parse"
  /\ LET row == remaining_ids[idx + 1]
         o == parse_json_response(text)
     IN IF o.type = "dict"
        THEN /\ obj' = o
             /\ labeled_jsonl' = [exists |-> TRUE,
                                  rows |-> Append(labeled_jsonl.rows,
                                                  annotation_record(row, o))]
             /\ appended' = appended + 1
             /\ pc' = "written"
             /\ UNCHANGED <<faultVars, idx, retry_count, text>>
        ELSE /\ clean' = FALSE
             /\ NextRow
             /\ UNCHANGED <<faults, labeled_jsonl, appended>>
  /\ UNCHANGED <<handled, run_start, annotation_checkpoint, processed_ids, remaining_ids,
                 batch_counter, annotFrame>>

\* the save coming one record late: batch_counter > BATCH_SIZE for >=
AnnotMark_saves_late ==
  /\ prog = "annot" /\ pc = "written"
  /\ LET row == remaining_ids[idx + 1]
         ids == processed_ids \cup {row.message_id}
     IN /\ processed_ids' = ids
        /\ IF batch_counter + 1 > ANNOT_BATCH_SIZE
           THEN /\ annotation_checkpoint' = annot_save_checkpoint(ids)
                /\ batch_counter' = 0
           ELSE /\ batch_counter' = batch_counter + 1
                /\ UNCHANGED annotation_checkpoint
  /\ NextRow
  /\ UNCHANGED <<faultVars, handled, appended, run_start, labeled_jsonl, remaining_ids,
                 annotFrame>>

\* annotate, lines 212-225: mark the row processed, count it, and save the
\* checkpoint when batch_counter reaches BATCH_SIZE
AnnotMark ==
  /\ prog = "annot" /\ pc = "written"
  /\ LET row == remaining_ids[idx + 1]
         ids == processed_ids \cup {row.message_id}
     IN /\ processed_ids' = ids
        /\ IF batch_counter + 1 >= ANNOT_BATCH_SIZE
           THEN /\ annotation_checkpoint' = annot_save_checkpoint(ids)
                /\ batch_counter' = 0
           ELSE /\ batch_counter' = batch_counter + 1
                /\ UNCHANGED annotation_checkpoint
  /\ NextRow
  /\ UNCHANGED <<faultVars, handled, appended, run_start, labeled_jsonl, remaining_ids,
                 annotFrame>>

\* annotate, lines 222-225 and 230-234: save_checkpoint raises inside the loop;
\* batch_counter is not reset and the handler of the row goes on with the next row
AnnotSaveError ==
  /\ prog = "annot" /\ pc = "written"
  /\ batch_counter + 1 >= ANNOT_BATCH_SIZE
  /\ faults < MaxFaults
  /\ faults' = faults + 1
  /\ clean' = FALSE
  /\ processed_ids' = processed_ids \cup {remaining_ids[idx + 1].message_id}
  /\ batch_counter' = batch_counter + 1
  /\ NextRow
  /\ UNCHANGED <<handled, appended, run_start, annotation_checkpoint, labeled_jsonl,
                 remaining_ids, annotFrame>>

\* the final save counting every row the run took up as processed
AnnotFinish_saves_handled ==
  /\ prog = "annot" /\ pc = "item"
  /\ idx = Len(remaining_ids)
  /\ annotation_checkpoint' = annot_save_checkpoint(processed_ids \cup Range(handled))
  /\ pc' = "done"
  /\ UNCHANGED <<faultVars, handled, appended, run_start, labeled_jsonl, processed_ids,
                 remaining_ids, annotVars, parseVars, annotFrame>>

\* annotate, lines 236-239: the final checkpoint
AnnotFinish ==
  /\ prog = "annot" /\ pc = "item"
  /\ idx = Len(remaining_ids)
  /\ annotation_checkpoint' = annot_save_checkpoint(processed_ids)
  /\ pc' = "done"
  /\ UNCHANGED <<faultVars, handled, appended, run_start, labeled_jsonl, processed_ids,
                 remaining_ids, annotVars, parseVars, annotFrame>>

AnnotNext ==
  \/ AnnotFatal
  \/ AnnotStart
  \/ AnnotRow
  \/ AnnotResponse
  \/ AnnotRequestError
  \/ AnnotWrite
  \/ AnnotMark
  \/ AnnotSaveError
  \/ AnnotFinish

----------------------------------------------------------------------------
(* mbox_to_csv.py *)

\* Scaled-down value of the setting (the source has 1000)
MBOX_BATCH_SIZE == 2

\* An archive: it cannot be opened or holds no mbox (corrupt), or it holds an
\* mbox of MsgsPerUnit messages
Archive(corrupt, count) == [corrupt |-> corrupt, count |-> count]

\* The archives the glob pattern matches: NumUnits of them, or none
ArchiveSets ==
  [1..NumUnits -> {Archive(TRUE, 0), Archive(FALSE, MsgsPerUnit)}]
  \cup {<<>>}

\* msg.get('Message-ID') of message m (counted from 1) of archive u: every
\* second message has none
has_message_id(u, m) == (u + m) % 2 = 0
message_number(u, m) == 10 * u + m

mbox_save_checkpoint(count, zip, done) ==
  [exists |-> TRUE, processed_count |-> count, current_zip |-> zip,
   processed_zips |-> done]

\* load_checkpoint: <<processed_count, current_zip, processed_zips>>
mbox_load_checkpoint ==
  IF mbox_checkpoint.exists
  THEN <<mbox_checkpoint.processed_count, mbox_checkpoint.current_zip,
         mbox_checkpoint.processed_zips>>
  ELSE <<0, 0, (<<>>)>>

\* extract_mbox_from_zip never returning None
extract_mbox_from_zip_never_none(zip_file) == TRUE

\* extract_mbox_from_zip: TRUE when it returns the path of the extracted mbox,
\* FALSE when it returns None
extract_mbox_from_zip(zip_file) == ~zips[zip_file].corrupt

\* sorted(glob.glob(INPUT_ZIP_PATTERN))
zip_files == [u \in 1..Len(zips) |-> u]

\* every enumerated unit taken up again, the completed ones included
remaining_after_keeps_done(done, current) ==
  IF current # 0 /\ current \in Range(zip_files)
  THEN <<current>> \o SelectSeq(zip_files, LAMBDA z : z # current)
  ELSE zip_files

\* the units left over, in the order of the enumeration, without moving the
\* unit in flight to the front
remaining_after_in_order(done, current) ==
  IF done # <<>>
  THEN SelectSeq(zip_files, LAMBDA z : z \notin Range(done))
  ELSE zip_files

\* main, lines 262-272
remaining_after(done, current) ==
  LET left == IF done # <<>>
              THEN SelectSeq(zip_files, LAMBDA z : z \notin Range(done))
              ELSE zip_files
  IN IF current # 0 /\ current \in Range(left)
     THEN <<current>> \o SelectSeq(left, LAMBDA z : z # current)
     ELSE left

\* the records with the synthesized id made of the index in the mbox alone
mbox_records_index_only(u, count, first, last, failed) ==
  LET positions == SelectSeq([k \in 1..(last - first) |-> first + k - 1],
                             LAMBDA i : i \notin failed)
  IN MapSeq(LAMBDA i :
              Record(IF has_message_id(u, i + 1)
                     THEN Str(message_number(u, i + 1))
                     ELSE NoId(i),
                     Body(message_number(u, i + 1), FALSE)),
            positions)

\* process_mbox_file, lines 194-218: the records of messages first..last-1
\* (counted from 0) of archive u, without the messages whose handling raised
mbox_records(u, count, first, last, failed) ==
  LET positions == SelectSeq([k \in 1..(last - first) |-> first + k - 1],
                             LAMBDA i : i \notin failed)
  IN MapSeq(LAMBDA i :
              Record(IF has_message_id(u, i + 1)
                     THEN Str(message_number(u, i + 1))
                     ELSE NoId(count + i - first),
                     Body(message_number(u, i + 1), FALSE)),
            positions)

InitMbox ==
  /\ prog = "mbox"
  /\ pc = "start"
  /\ text = <<>>
  /\ emails_csv = NoCsv
  /\ zips \in ArchiveSets
  /\ Fresh

\* main, lines 249-253: no archive matches the pattern; sys.exit(1)
MboxNoZips ==
  /\ prog = "mbox" /\ pc = "start"
  /\ zip_files = <<>>
  /\ faults' = faults + 1
  /\ clean' = FALSE
  /\ pc' = "exit1"
  /\ UNCHANGED <<appended, emails_csv, mbox_checkpoint, temp_dir, batch_start,
                 processed_count, current_zip, processed_zips, remaining_zips, zip_index,
                 total_count, mboxFrame>>

\* main, lines 249-276: load the checkpoint, order the remaining archives, make
\* the temporary directory
MboxStart ==
  /\ prog = "mbox" /\ pc = "start"
  /\ zip_files # <<>>
  /\ processed_count' = mbox_load_checkpoint[1]
  /\ current_zip' = mbox_load_checkpoint[2]
  /\ processed_zips' = mbox_load_checkpoint[3]
  /\ remaining_zips' = remaining_after(mbox_load_checkpoint[3], mbox_load_checkpoint[2])
  /\ zip_index' = 0
  /\ temp_dir' = TRUE
  /\ pc' = "unit"
  /\ UNCHANGED <<faultVars, appended, emails_csv, mbox_checkpoint, batch_start, total_count,
                 mboxFrame>>

\* main, lines 280-294 and process_mbox_file, lines 162-181: save the checkpoint
\* with the archive as current_zip and extract the mbox; a corrupt archive is
\* skipped; otherwise count the messages (count_messages gives 0 when it
\* raises) and, for a first archive without an output file, write the header
MboxUnit ==
  /\ prog = "mbox" /\ pc = "unit"
  /\ zip_index < Len(remaining_zips)
  /\ LET zip_file == remaining_zips[zip_index + 1]
     IN /\ mbox_checkpoint' = mbox_save_checkpoint(processed_count, zip_file, processed_zips)
        /\ IF ~extract_mbox_from_zip(zip_file)
           THEN /\ zip_index' = zip_index + 1
                /\ pc' = "unit"
                /\ UNCHANGED <<faultVars, emails_csv, total_count, batch_start>>
           ELSE \E counted \in BOOLEAN :
                  /\ ~counted => faults < MaxFaults
                  /\ faults' = IF counted THEN faults ELSE faults + 1
                  /\ clean' = (clean /\ counted)
                  /\ total_count' = IF counted THEN zips[zip_file].count ELSE 0
                  /\ emails_csv' = IF counted /\ processed_count = 0 /\ ~emails_csv.exists
                                   THEN write_csv_header
                                   ELSE emails_csv
                  /\ batch_start' = 0
                  /\ pc' = "mbox"
                  /\ UNCHANGED zip_index
  /\ UNCHANGED <<appended, temp_dir, processed_count, current_zip, processed_zips,
                 remaining_zips, mboxFrame>>

\* process_mbox_file, lines 183-232: one batch; a message whose handling raises
\* is logged and left out; the records are appended and the counters advanced.
\* The pause between batches is announced, but nothing sleeps.
MboxBatch ==
  /\ prog = "mbox" /\ pc = "mbox"
  /\ batch_start < total_count
  /\ LET zip_file == remaining_zips[zip_index + 1]
         end == Min(batch_start + MBOX_BATCH_SIZE, total_count)
     IN \E failed \in SUBSET (batch_start..(end - 1)) :
          LET records == mbox_records(zip_file, processed_count, batch_start, end, failed)
          IN /\ faults + Cardinality(failed) <= MaxFaults
             /\ faults' = faults + Cardinality(failed)
             /\ clean' = (clean /\ failed = {})
             /\ emails_csv' = append_to_csv(emails_csv, records)
             /\ appended' = appended + Len(records)
             /\ processed_count' = processed_count + (end - batch_start)
             /\ batch_start' = end
  /\ UNCHANGED <<pc, mbox_checkpoint, temp_dir, current_zip, processed_zips,
                 remaining_zips, zip_index, total_count, mboxFrame>>

\* process_mbox_file, lines 234-237: append_to_csv raises; after the back-off
\* the same batch is tried again
MboxBatchError ==
  /\ prog = "mbox" /\ pc = "mbox"
  /\ batch_start < total_count
  /\ faults < MaxFaults
  /\ faults' = faults + 1
  /\ clean' = FALSE
  /\ UNCHANGED <<pc, appended, emails_csv, mbox_checkpoint, temp_dir, batch_start,
                 processed_count, current_zip, processed_zips, remaining_zips, zip_index,
                 total_count, mboxFrame>>

\* main, lines 294-309: the archive is done; add it to processed_zips and save
\* the checkpoint without a current_zip
MboxUnitEnd ==
  /\ prog = "mbox" /\ pc = "mbox"
  /\ batch_start >= total_count
  /\ LET zip_file == remaining_zips[zip_index + 1]
     IN /\ processed_zips' = Append(processed_zips, zip_file)
        /\ mbox_checkpoint' = mbox_save_checkpoint(processed_count, 0,
                                                   Append(processed_zips, zip_file))
  /\ current_zip' = 0
  /\ zip_index' = zip_index + 1
  /\ pc' = "unit"
  /\ UNCHANGED <<faultVars, appended, emails_csv, temp_dir, batch_start, processed_count,
                 remaining_zips, total_count, mboxFrame>>

\* main, lines 311-316: an exception leaves the try block of the archive: raised
\* when the mbox is opened (process_mbox_file, line 173), or when the temporary
\* mbox is removed after the archive was added to processed_zips (line 306).
\* The handler saves the checkpoint with the archive as current_zip and the
\* loop goes on with the next archive.
MboxUnitError ==
  /\ prog = "mbox" /\ pc = "mbox"
  /\ faults < MaxFaults
  /\ LET zip_file == remaining_zips[zip_index + 1]
     IN \/ /\ batch_start = 0 /\ total_count > 0
           /\ mbox_checkpoint' = mbox_save_checkpoint(processed_count, zip_file,
                                                      processed_zips)
           /\ UNCHANGED <<processed_zips, current_zip>>
        \/ /\ batch_start >= total_count
           /\ processed_zips' = Append(processed_zips, zip_file)
           /\ current_zip' = 0
           /\ mbox_checkpoint' = mbox_save_checkpoint(processed_count, zip_file,
                                                      Append(processed_zips, zip_file))
  /\ faults' = faults + 1
  /\ clean' = FALSE
  /\ zip_index' = zip_index + 1
  /\ pc' = "unit"
  /\ UNCHANGED <<appended, emails_csv, temp_dir, batch_start, processed_count,
                 remaining_zips, total_count, mboxFrame>>

\* main, lines 274-334: an exception leaves the loop over the units: the
\* save_checkpoint of the unit handler raises (lines 311-316), or the removal
\* of the checkpoint file does (lines 323-325).  The finally clause removes
\* the temporary directory, and the exception ends the process with a
\* traceback and exit status 1.  The checkpoint file is as the last save
\* that succeeded left it.
MboxEscape ==
  /\ prog = "mbox" /\ pc \in {"unit", "mbox"}
  /\ faults < MaxFaults
  /\ faults' = faults + 1
  /\ clean' = FALSE
  /\ temp_dir' = FALSE
  /\ pc' = "raised"
  /\ UNCHANGED <<appended, emails_csv, mbox_checkpoint, batch_start, processed_count,
                 current_zip, processed_zips, remaining_zips, zip_index, total_count,
                 mboxFrame>>

\* the end of main without the finally clause
MboxFinish_keeps_temp_dir ==
  /\ prog = "mbox" /\ pc = "unit"
  /\ zip_index = Len(remaining_zips)
  /\ mbox_checkpoint' = NoMboxCheckpoint
  /\ pc' = "done"
  /\ UNCHANGED <<faultVars, appended, emails_csv, temp_dir, batch_start, processed_count,
                 current_zip, processed_zips, remaining_zips, zip_index, total_count,
                 mboxFrame>>

\* the end of main without the removal of the checkpoint file
MboxFinish_keeps_checkpoint ==
  /\ prog = "mbox" /\ pc = "unit"
  /\ zip_index = Len(remaining_zips)
  /\ temp_dir' = FALSE
  /\ pc' = "done"
  /\ UNCHANGED <<faultVars, appended, emails_csv, mbox_checkpoint, batch_start,
                 processed_count, current_zip, processed_zips, remaining_zips, zip_index,
                 total_count, mboxFrame>>

\* main, lines 318-334: every archive was iterated; remove the checkpoint and
\* the temporary directory
MboxFinish ==
  /\ prog = "mbox" /\ pc = "unit"
  /\ zip_index = Len(remaining_zips)
  /\ mbox_checkpoint' = NoMboxCheckpoint
  /\ temp_dir' = FALSE
  /\ pc' = "done"
  /\ UNCHANGED <<faultVars, appended, emails_csv, batch_start, processed_count, current_zip,
                 processed_zips, remaining_zips, zip_index, total_count, mboxFrame>>

MboxNext ==
  \/ MboxNoZips
  \/ MboxStart
  \/ MboxUnit
  \/ MboxBatch
  \/ MboxBatchError
  \/ MboxUnitEnd
  \/ MboxUnitError
  \/ MboxEscape
  \/ MboxFinish

----------------------------------------------------------------------------
(* The process: killed at any point of a run, and run again *)

Stopped ==
  prog \in {"imap", "annot", "mbox"} /\ pc \in {"done", "returned", "exit1", "raised", "killed"}

Running == prog \in {"imap", "annot", "mbox"} /\ ~Stopped

\* the process is killed; what it held in memory is gone
Kill ==
  /\ Running
  /\ run < MaxRuns
  /\ faults < MaxFaults
  /\ faults' = faults + 1
  /\ pc' = "killed"
  /\ NoMemory
  /\ UNCHANGED <<prog, run, clean, sleeps, handled, appended, run_start, diskVars, zips,
                 extractVars>>

\* the script is started again
Rerun ==
  /\ Stopped
  /\ run < MaxRuns
  /\ run' = run + 1
  /\ pc' = "start"
  /\ clean' = TRUE /\ sleeps' = 0 /\ handled' = <<>> /\ appended' = 0
  /\ run_start' = NoRunStart
  /\ NoMemory
  /\ UNCHANGED <<prog, faults, diskVars, zips, extractVars>>

----------------------------------------------------------------------------
(* The parser run on its own: one text in, one value out *)

InitParse ==
  /\ prog = "parse"
  /\ pc = "parse"
  /\ text \in Texts
  /\ emails_csv = NoCsv
  /\ zips = <<>>
  /\ Fresh

ParseResponse ==
  /\ prog = "parse"
  /\ pc = "parse"
  /\ obj' = parse_json_response(text)
  /\ pc' = "parsed"
  /\ UNCHANGED <<prog, run, faultVars, sleeps, handled, appended, run_start, text, diskVars,
                 batchVars, annotVars, mboxVars, extractVars>>

----------------------------------------------------------------------------
(* The body extraction run on its own: one message in, one body out.  A     *)
(* message is multipart or not; a part has a content type, a payload (the   *)
(* bytes of its text; "" for none) and a charset that Python knows or not.  *)

ContentTypes == {"text/plain", "text/html"}
Payloads == {"", "hello", "bye"}

Part(type, payload, charset_ok) ==
  [type |-> type, payload |-> payload, charset_ok |-> charset_ok]

Parts == {Part(t, p, c) : t \in ContentTypes, p \in Payloads, c \in BOOLEAN}

\* msg.walk() of a multipart message gives its parts in order (after the
\* container itself, which is of no text type); a message that is not
\* multipart is its single part
Messages ==
  {[multipart |-> TRUE, parts |-> ps] : ps \in SeqsUpTo(Parts, MaxParts)}
  \cup {[multipart |-> FALSE, parts |-> <<p>>] : p \in Parts}

\* the example: an HTML part followed by the plain-text part hello
HtmlThenHello ==
  [multipart |-> TRUE,
   parts |-> <<Part("text/html", "bye", TRUE), Part("text/plain", "hello", TRUE)>>]

Extracted(b) == [raised |-> FALSE, body |-> b]
Raised == [raised |-> TRUE, body |-> ""]

\* payload.decode(charset, errors='ignore'): an unknown charset raises
\* LookupError, whatever the payload
payload_decode(part) == IF part.charset_ok THEN Extracted(part.payload) ELSE Raised

\* get_emails.main, lines 138-146: the for loop over msg.walk(), from part i
RECURSIVE imap_walk(_, _)
imap_walk(parts, i) ==
  IF i > Len(parts) THEN Extracted("")
  ELSE IF parts[i].type = "text/plain" THEN payload_decode(parts[i])
  ELSE imap_walk(parts, i + 1)

\* get_emails.main, lines 138-146
imap_extract(m) ==
  IF m.multipart THEN imap_walk(m.parts, 1) ELSE payload_decode(m.parts[1])

\* the loop without its break: the last usable plain-text part wins
mbox_walk_no_break(parts, i) ==
  LET usable == {k \in i..Len(parts) : /\ parts[k].type = "text/plain"
                                       /\ parts[k].payload # ""
                                       /\ parts[k].charset_ok}
  IN IF usable = {} THEN ""
     ELSE parts[CHOOSE k \in usable : \A j \in usable : j <= k].payload

\* extract_text_from_message, lines 74-82: the for loop over msg.walk(), from
\* part i; a plain-text part without payload, or whose decoding raises, is
\* passed over
RECURSIVE mbox_walk(_, _)
mbox_walk(parts, i) ==
  IF i > Len(parts) THEN ""
  ELSE IF /\ parts[i].type = "text/plain"
          /\ parts[i].payload # ""
          /\ ~payload_decode(parts[i]).raised
       THEN payload_decode(parts[i]).body
  ELSE mbox_walk(parts, i + 1)

extract_text_from_message(m) ==
  IF m.multipart THEN Extracted(mbox_walk(m.parts, 1))
  ELSE IF m.parts[1].payload # "" /\ ~payload_decode(m.parts[1]).raised
       THEN Extracted(payload_decode(m.parts[1]).body)
  ELSE Extracted("")

InitExtract ==
  /\ prog = "extract"
  /\ pc = "extract"
  /\ text = <<>>
  /\ raw_msg \in Messages
  /\ emails_csv = NoCsv
  /\ zips = <<>>
  /\ Fresh

ExtractText ==
  /\ prog = "extract"
  /\ pc = "extract"
  /\ text_body' = [imap |-> imap_extract(raw_msg),
                   mbox |-> extract_text_from_message(raw_msg)]
  /\ pc' = "extracted"
  /\ UNCHANGED <<prog, run, faultVars, sleeps, handled, appended, run_start, diskVars,
                 batchVars, annotVars, mboxVars, parseVars, raw_msg>>

----------------------------------------------------------------------------

Init ==
  \/ InitParse
  \/ InitExtract
  \/ InitImap
  \/ InitAnnot
  \/ InitMbox

Next ==
  \/ ParseResponse
  \/ ExtractText
  \/ ImapNext
  \/ AnnotNext
  \/ MboxNext
  \/ Kill
  \/ Rerun

Spec == Init /\ [][Next]_vars

\* The steps of a run of an extraction script that no batch-level failure
\* and no kill interrupts: the interpreter runs the statements of main one
\* after the other, so a step that stays possible is taken
ImapProgress ==
  \/ ImapLoad
  \/ ImapInit
  \/ ImapFetchBatch
  \/ ImapAppend
  \/ ImapSave
  \/ ImapNextBatch
  \/ ImapFinish

MboxProgress ==
  \/ MboxNoZips
  \/ MboxStart
  \/ MboxUnit
  \/ MboxBatch
  \/ MboxUnitEnd
  \/ MboxFinish

\* One run of an extraction script, left alone by the operator (no kill), in
\* which the script goes on whenever it can; failures stay possible as long
\* as the budget of faults lasts, and are never forced
ExtractionInit == InitImap \/ InitMbox

ExtractionNext ==
  \/ ImapNext
  \/ MboxNext

FairSpec ==
  /\ ExtractionInit
  /\ [][ExtractionNext]_vars
  /\ WF_vars(ImapProgress)
  /\ WF_vars(MboxProgress)

----------------------------------------------------------------------------
(* Properties *)

\* the last n elements of the sequence s
LastRows(s, n) == SubSeq(s, Len(s) - n + 1, Len(s))

Ceil(n, b) == (n + b - 1) \div b

\* the ids, in file order, of the records the current run has appended
WrittenIds(file) ==
  MapSeq(LAMBDA r : r.message_id, LastRows(file.rows, appended))

\* the work set of the current annotation run without the ids it loaded
RowsLeft == SelectSeq(read_csv(emails_csv),
                      LAMBDA row : row.message_id \notin run_start.completed)

\* the sample without the ids the current IMAP run loaded
IdsLeft == SelectSeq(sampled_ids, LAMBDA id : id \notin run_start.completed)

C2_NoSilentItemLoss ==
  (prog = "imap" /\ pc = "done") =>
    \A id \in Range(sampled_ids) : Count(RecordIds(emails_csv), decode(id)) = 1

\* C3 (as stated, for the IMAP extraction): every id in the checkpoint file
\* has its record in emails.csv already, the checkpoints saved by the error
\* handlers included
C3_WriteBeforeCheckpoint ==
  (prog = "imap" /\ email_checkpoint.exists) =>
    \A id \in Range(email_checkpoint.processed_ids) :
      id \in Range(RecordIds(emails_csv))

C5_RetrySameBatch ==
  (prog = "imap" /\ run = 1 /\ pc = "done") =>
    \A id \in Range(remaining_ids) :
      /\ id \in Range(handled)
      /\ Count(RecordIds(emails_csv), decode(id)) <= 1

\* C6: an archive that cannot be opened or holds no mbox is skipped: it is
\* never added to the processed archives, in memory or in the checkpoint, and
\* the run is not aborted for it; a run that meets no error ends with every
\* other archive processed and a record for each of its messages
C6_UnitSkipOnCorruption ==
  prog = "mbox" =>
    /\ \A u \in 1..Len(zips) :
         zips[u].corrupt =>
           /\ u \notin Range(processed_zips)
           /\ u \notin Range(mbox_checkpoint.processed_zips)
    /\ pc = "exit1" => zips = <<>>
    /\ (pc = "done" /\ clean) =>
         \A u \in Range(remaining_zips) :
           ~zips[u].corrupt =>
             /\ u \in Range(processed_zips)
             /\ \A m \in 1..zips[u].count :
                  \E i \in 1..Len(emails_csv.rows) :
                    emails_csv.rows[i].body.msg = message_number(u, m)

\* C6, witness: a first run over three archives or more, the second of them
\* corrupt, has ended without an error with the first and the third processed
C6_Witness ==
  /\ prog = "mbox" /\ pc = "done" /\ clean /\ run = 1
  /\ Len(zips) >= 3
  /\ zips[2].corrupt /\ ~zips[1].corrupt /\ ~zips[3].corrupt
  /\ 1 \in Range(processed_zips) /\ 3 \in Range(processed_zips)
  /\ appended >= 2 * MsgsPerUnit

\* a text that json.loads rejects as it is and after the cleaning
Unparseable(t) == ~json_loads(t).ok /\ ~json_loads(cleaned_text(t)).ok

\* the record of a row with the sentinel values
SentinelRecord(row) ==
  [message_id |-> row.message_id, email_body |-> row.body,
   importance |-> -1, reason |-> "JSON parse failed", confidence |-> "0.0"]

\* C7: for a response that cannot be parsed even after the cleaning, the
\* parser returns the sentinel (importance -1, the parse-failure reason,
\* confidence 0.0); the annotation writes exactly one record for the row, with
\* the sentinel values, marks the row processed and goes on with the next row
C7_SentinelOnParseFailure ==
  /\ []((prog = "parse" /\ pc = "parsed" /\ Unparseable(text)) => obj = Sentinel)
  /\ []((prog = "annot" /\ pc = "written" /\ Unparseable(text)) =>
          /\ obj = Sentinel
          /\ labeled_jsonl.rows[Len(labeled_jsonl.rows)] =
               SentinelRecord(remaining_ids[idx + 1])
          /\ Count(WrittenIds(labeled_jsonl), remaining_ids[idx + 1].message_id) = 1)
  /\ [][(prog = "annot" /\ pc = "written" /\ Unparseable(text) /\ pc' # "killed") =>
          /\ remaining_ids[idx + 1].message_id \in processed_ids'
          /\ labeled_jsonl' = labeled_jsonl
          /\ idx' = idx + 1
          /\ pc' = "item"]_vars

\* C7, witness: the annotation has written the record of a row whose response
\* was not JSON at all
C7_Witness ==
  /\ prog = "annot" /\ pc = "written"
  /\ text = NotJsonExample
  /\ Unparseable(text)
  /\ obj = Sentinel

\* C8: a response made of a valid JSON object in a backtick code fence, with
\* newlines around the object, is salvaged to exactly that object and not to
\* the sentinel
C8_SalvageFencedObject ==
  (prog = "parse" /\ pc = "parsed") =>
    \A f \in Fences, o \in Objects :
      text = Fenced(f, o) =>
        /\ obj = json_loads(o).value
        /\ obj.type = "dict"
        /\ obj # Sentinel

\* C8, witness: the parser has returned the object of the fenced example
C8_Witness ==
  /\ prog = "parse" /\ pc = "parsed"
  /\ text = FencedExample
  /\ obj = UrgentBill

\* C9 (as stated, for the two extraction stages): a run over n remaining items
\* in batches of B that meets no error sleeps ceil(n / B) - 1 times between
\* batches: after every batch but the last (in the archive extraction, the
\* batches of each archive)
C9_BatchPacing ==
  /\ (prog = "imap" /\ pc = "done" /\ clean) =>
       sleeps = Ceil(Len(remaining_ids), IMAP_BATCH_SIZE) - 1
  /\ (prog = "mbox" /\ pc = "done" /\ clean) =>
       sleeps = Cardinality({u \in Range(remaining_zips) : ~zips[u].corrupt})
                  * (Ceil(MsgsPerUnit, MBOX_BATCH_SIZE) - 1)

IsPrefix(s, t) == Len(s) <= Len(t) /\ SubSeq(t, 1, Len(s)) = s

\* the least element of a non-empty set of numbers
Least(S) == CHOOSE k \in S : \A j \in S : k <= j

\* C11 (as stated): a fatal error (the login is refused when get_connection is
\* called, at the start or for a batch; emails.csv lacks a required column)
\* ends the run with exit status 1 and leaves the completed ids of the
\* checkpoint file as they were
C11_FatalErrorAborts ==
  [][(\/ ImapInitError
      \/ (ImapBatchError /\ pc = "batch" /\ email_checkpoint' = email_checkpoint)
      \/ AnnotFatal) =>
       /\ pc' = "exit1"
       /\ Range(email_checkpoint'.processed_ids) = Range(email_checkpoint.processed_ids)
       /\ annotation_checkpoint' = annotation_checkpoint]_vars

OneHeaderRow ==
  (prog \in {"imap", "mbox"} /\ emails_csv.exists) =>
    /\ emails_csv.rows # <<>>
    /\ emails_csv.rows[1] = Header
    /\ \A i \in 2..Len(emails_csv.rows) : emails_csv.rows[i].kind = "record"

\* the step of an IMAP run without a sample that leaves emails.csv with the
\* header alone
RewrittenAtInit ==
  /\ prog = "imap" /\ pc = "init"
  /\ emails_csv'.rows = <<Header>>

\* C13 (as amended): whenever emails.csv exists its first row is the header
\* and no other row is; a step of an extraction leaves the rows in place and
\* at most appends to them, but for one case: an IMAP run that starts without
\* a sample in its checkpoint (a first run, a run after a completed run)
\* rewrites the file to the header alone
C13_ExtractionOutputAcrossRuns ==
  /\ []OneHeaderRow
  /\ [][(prog \in {"imap", "mbox"}) =>
          (IsPrefix(emails_csv.rows, emails_csv'.rows) \/ RewrittenAtInit)]_vars

\* C13, witness: a second run of the archive extraction has appended records
\* behind the records of the first run
C13_Witness ==
  /\ prog = "mbox" /\ run = 2
  /\ appended >= 1
  /\ Len(emails_csv.rows) > 1 + appended
  /\ emails_csv.rows[1] = Header

\* C13 (as stated): emails.csv has one header row, its first, and every step
\* of an extraction run, whichever run it is, only appends to the file
C13_AsStated ==
  /\ []OneHeaderRow
  /\ [][(prog \in {"imap", "mbox"}) => IsPrefix(emails_csv.rows, emails_csv'.rows)]_vars

\* the positions of the plain-text parts of the message, and of those among
\* them that have a payload and a charset Python knows
PlainParts == {i \in 1..Len(raw_msg.parts) : raw_msg.parts[i].type = "text/plain"}
UsableParts == {i \in PlainParts : /\ raw_msg.parts[i].payload # ""
                                   /\ raw_msg.parts[i].charset_ok}

\* C14 (as amended): for a multipart message, mbox_to_csv extracts the payload
\* of the first plain-text part that has a payload and decodes (the empty
\* string when there is none), passing over the plain-text parts before it;
\* get_emails takes the first plain-text part whatever it holds: its payload
\* when the charset is known, an exception when it is not (the empty string
\* when the message has no plain-text part).  For an HTML part followed by the
\* plain-text part hello both extract hello.
C14_FirstPlainTextPart ==
  (prog = "extract" /\ pc = "extracted" /\ raw_msg.multipart) =>
    /\ text_body.mbox =
         IF UsableParts = {} THEN Extracted("")
         ELSE Extracted(raw_msg.parts[Least(UsableParts)].payload)
    /\ text_body.imap =
         IF PlainParts = {} THEN Extracted("")
         ELSE IF raw_msg.parts[Least(PlainParts)].charset_ok
              THEN Extracted(raw_msg.parts[Least(PlainParts)].payload)
         ELSE Raised
    /\ raw_msg = HtmlThenHello =>
         text_body.mbox = Extracted("hello") /\ text_body.imap = Extracted("hello")

\* C14, witness: both scripts have extracted hello from the HTML part followed
\* by the plain-text part hello
C14_Witness ==
  /\ prog = "extract" /\ pc = "extracted"
  /\ raw_msg = HtmlThenHello
  /\ text_body.mbox.body = "hello"
  /\ text_body.imap.body = "hello"

\* C14 (as stated): for a multipart message whose first plain-text part
\* decodes, the extracted body is the payload of that part
C14_AsStated ==
  (/\ prog = "extract" /\ pc = "extracted" /\ raw_msg.multipart
   /\ PlainParts # {}
   /\ raw_msg.parts[Least(PlainParts)].charset_ok) =>
    /\ text_body.mbox = Extracted(raw_msg.parts[Least(PlainParts)].payload)
    /\ text_body.imap = Extracted(raw_msg.parts[Least(PlainParts)].payload)

\* C15 (as stated, for the IMAP extraction): when the fetch loop of a batch is
\* over, every id of the batch, the ids whose fetch raised included, has a
\* record among the records of the batch and is in processed_ids
C15_PerItemErrorRecorded ==
  (prog = "imap" /\ pc = "append") =>
    \A k \in (batch_start + 1)..batch_end :
      /\ remaining_ids[k] \in Range(processed_ids)
      /\ \E i \in 1..Len(batch_records) :
           batch_records[i].message_id = decode(remaining_ids[k])

\* C16 (as stated): when an exception aborts a batch of the IMAP extraction,
\* the error path puts no id of that batch into the checkpoint file, and the
\* same batch is tried again
C16_BatchErrorCheckpoint ==
  [][ImapBatchError =>
       /\ pc' = "batch"
       /\ batch_start' = batch_start
       /\ \A k \in (batch_start + 1)..Min(batch_start + IMAP_BATCH_SIZE, Len(remaining_ids)) :
            decode(remaining_ids[k]) \in Range(email_checkpoint'.processed_ids) =>
              decode(remaining_ids[k]) \in Range(email_checkpoint.processed_ids)]_vars

\* C17: for one item the request is attempted at most 3 times.  While an
\* attempt is under way at most 2 have failed before it; the first attempt
\* of an item follows the reading of its row and starts the count at 0; every
\* further attempt for the item follows a failed one and adds 1 to the count;
\* once an attempt has returned a response (the text is being parsed, the
\* record is written) no attempt follows for that item: the run goes on with
\* the next row
C17_RequestRetryBound ==
  /\ [](prog = "annot" => /\ retry_count <= 3
                          /\ pc = "request" => retry_count < 3)
  /\ [][prog = "annot" =>
          /\ (pc' = "request" /\ pc # "request") => (pc = "item" /\ retry_count' = 0)
          /\ (pc' = "request" /\ pc = "request") =>
               (retry_count' = retry_count + 1 /\ idx' = idx)
          /\ pc \in {"parse", "written"} =>
               \/ pc' \in {"parse", "written"} /\ idx' = idx
               \/ pc' = "item" /\ idx' = idx + 1
               \/ pc' = "killed"]_vars

\* C17, witness: the third attempt for an item has returned a response, after
\* two failed attempts
C17_Witness ==
  /\ prog = "annot" /\ pc = "parse"
  /\ retry_count = 2

\* the step in which the third attempt of the request for a row fails
RetriesExhausted ==
  /\ prog = "annot" /\ pc = "request"
  /\ retry_count = 3 - 1
  /\ retry_count' = 3

ExtractionRunning == prog \in {"imap", "mbox"} /\ Running

\* the batch position moves only over a batch that was carried through: in the
\* IMAP extraction from the end of a batch whose records were appended and
\* whose checkpoint was saved, in a step in which nothing fails; in the archive
\* extraction together with the count of processed messages
BatchPositionHeld ==
  /\ (/\ prog = "imap" /\ pc \in {"batch", "append", "save", "close"}
      /\ batch_start' # batch_start) =>
       \/ pc' = "killed"
       \/ /\ pc = "close" /\ faults' = faults
          /\ batch_start' = batch_end
          /\ batch_end = Min(batch_start + IMAP_BATCH_SIZE, Len(remaining_ids))
  /\ (prog = "mbox" /\ pc = "mbox" /\ batch_start' # batch_start) =>
       \/ pc' = "killed"
       \/ /\ batch_start' = Min(batch_start + MBOX_BATCH_SIZE, total_count)
          /\ processed_count' = processed_count + (batch_start' - batch_start)

\* a step that leaves the body of a batch for the top of the loop with the
\* batch position where it was: the batch failed and is tried again
BatchRetried ==
  /\ prog = "imap" /\ pc \in {"append", "save", "close"}
  /\ pc' = "batch" /\ batch_start' = batch_start

OutputIds ==
  IF prog = "imap" THEN RecordIds(emails_csv)
  ELSE MapSeq(LAMBDA r : r.message_id, labeled_jsonl.rows)

\* the ids of the crash gap of the run: they had a record in the output when
\* the run started, and the completed ids the run loaded lack them
GapIds ==
  IF prog = "imap"
  THEN {g \in DOMAIN run_start.written : \A c \in run_start.completed : decode(c) # g}
  ELSE {g \in DOMAIN run_start.written : g \notin run_start.completed}

\* a run that followed a kill or a failure has come to its normal end without
\* a failure of its own; for the IMAP extraction, it resumed from a checkpoint
AfterGapDone ==
  /\ prog \in {"imap", "annot"} /\ pc = "done"
  /\ clean
  /\ prog = "imap" => run_start.loaded

MboxResumed ==
  /\ prog = "mbox" /\ pc = "unit" /\ zip_index = 0
  /\ mbox_checkpoint.exists

\* C21: when a run of the archive extraction starts from a checkpoint whose
\* current unit is set and is not among the completed units, that unit is the
\* first of the units the run works on; and every unit the run enters is
\* entered at its first message, with all its messages to process (the
\* processed count the checkpoint holds is no offset into the unit)
C21_InFlightUnitFirst ==
  /\ []((/\ MboxResumed
         /\ mbox_checkpoint.current_zip # 0
         /\ mbox_checkpoint.current_zip \notin Range(mbox_checkpoint.processed_zips)) =>
          /\ remaining_zips # <<>>
          /\ remaining_zips[1] = mbox_checkpoint.current_zip)
  /\ [][(prog = "mbox" /\ pc = "unit" /\ pc' = "mbox") =>
          /\ batch_start' = 0
          /\ total_count' \in {0, zips[remaining_zips[zip_index + 1]].count}]_vars

\* C21, witness: the second run works on the unit that was in flight when the
\* first run was killed, ahead of a unit that comes before it in the
\* enumeration, and has appended records of it
C21_Witness ==
  /\ prog = "mbox" /\ run = 2 /\ pc = "mbox" /\ zip_index = 0
  /\ Len(remaining_zips) >= 2
  /\ remaining_zips[2] < remaining_zips[1]
  /\ remaining_zips[1] = mbox_checkpoint.current_zip
  /\ appended >= 1

\* the sequence has no element twice
NoRepeat(s) == \A i, j \in 1..Len(s) : s[i] = s[j] => i = j

UnsavedTail ==
  {i \in 1..Len(WrittenIds(labeled_jsonl)) :
     ~annotation_checkpoint.exists
     \/ WrittenIds(labeled_jsonl)[i] \notin annotation_checkpoint.processed_ids}

\* C23 (as stated): in each script, when a batch has been flushed and the
\* next batch is about to start, the checkpoint file holds the progress of
\* the flushed batch: in the IMAP extraction the ids of the batch, in the
\* archive extraction the count of messages processed so far, in the
\* annotation (as long as no failure occurred) all but fewer than BATCH_SIZE
\* of the records written
C23_CheckpointAfterBatch ==
  /\ (prog = "imap" /\ pc = "batch" /\ batch_start > 0) =>
       /\ email_checkpoint.exists
       /\ \A k \in 1..batch_start :
            remaining_ids[k] \in Range(processed_ids) =>
              decode(remaining_ids[k]) \in Range(email_checkpoint.processed_ids)
  /\ (prog = "annot" /\ pc = "item" /\ clean) =>
       Cardinality(UnsavedTail) < ANNOT_BATCH_SIZE
  /\ (prog = "mbox" /\ pc = "mbox" /\ 0 < batch_start /\ batch_start < total_count) =>
       /\ mbox_checkpoint.exists
       /\ mbox_checkpoint.processed_count = processed_count

RaisedBeforeRecord ==
  /\ prog = "annot"
  /\ RetriesExhausted \/ (pc = "parse" /\ pc' = "item")

\* the step in which the checkpoint save that follows the record of a row
\* raises
RaisedAtSave ==
  /\ prog = "annot" /\ pc = "written" /\ pc' = "item"
  /\ batch_counter' > batch_counter
  /\ batch_counter' >= ANNOT_BATCH_SIZE

\* the rows the run is through with
RowsDone == SubSeq(remaining_ids, 1, idx)

\* C25 (as amended): a row whose request fails on all 3 attempts, or whose
\* parsed answer is no dict, gets no record and is not added to the processed
\* ids, and the run goes on with the next row; a row whose record is written
\* and whose checkpoint save then raises keeps its record and is among the
\* processed ids.  So at any point between two rows a row the run is through
\* with is among the processed ids exactly when its body is no string or the
\* run wrote its record; the final checkpoint holds exactly the processed
\* ids, and a run takes up exactly the rows whose ids the checkpoint it
\* loaded lacks.
C25_FailedItemLeftForNextRun ==
  /\ [][RaisedBeforeRecord =>
          /\ pc' = "item" /\ idx' = idx + 1
          /\ labeled_jsonl' = labeled_jsonl
          /\ processed_ids' = processed_ids
          /\ annotation_checkpoint' = annotation_checkpoint
          /\ remaining_ids[idx + 1].message_id \notin processed_ids'
          /\ Count(WrittenIds(labeled_jsonl), remaining_ids[idx + 1].message_id) = 0]_vars
  /\ [][RaisedAtSave =>
          /\ idx' = idx + 1
          /\ labeled_jsonl' = labeled_jsonl
          /\ annotation_checkpoint' = annotation_checkpoint
          /\ remaining_ids[idx + 1].message_id \in processed_ids'
          /\ Count(WrittenIds(labeled_jsonl), remaining_ids[idx + 1].message_id) = 1]_vars
  /\ []((prog = "annot" /\ pc \in {"item", "done"}) =>
          \A k \in 1..idx :
            remaining_ids[k].message_id \in processed_ids <=>
              \/ ~is_str(remaining_ids[k].body)
              \/ Count(WrittenIds(labeled_jsonl), remaining_ids[k].message_id) > 0)
  /\ []((prog = "annot" /\ pc = "done") =>
          /\ annotation_checkpoint.exists
          /\ annotation_checkpoint.processed_ids = processed_ids)
  /\ []((prog = "annot" /\ pc = "item" /\ idx = 0) =>
          remaining_ids =
            SelectSeq(read_csv(emails_csv),
                      LAMBDA row : ~annotation_checkpoint.exists
                                   \/ row.message_id \notin annotation_checkpoint.processed_ids))

\* C25, witness: a run has ended in which a row with a text body got no
\* record; the final checkpoint lacks its id
C25_Witness ==
  /\ prog = "annot" /\ pc = "done"
  /\ \E k \in 1..Len(remaining_ids) :
       /\ is_str(remaining_ids[k].body)
       /\ Count(WrittenIds(labeled_jsonl), remaining_ids[k].message_id) = 0
       /\ remaining_ids[k].message_id \notin annotation_checkpoint.processed_ids

\* C25 (as stated): whatever exception the handling of a row raises, the row
\* has no record and is not among the processed ids
C25_AsStated ==
  [][(RaisedBeforeRecord \/ RaisedAtSave) =>
       /\ remaining_ids[idx + 1].message_id \notin processed_ids'
       /\ Count(WrittenIds(labeled_jsonl), remaining_ids[idx + 1].message_id) = 0]_vars

\* C26 (as amended): as long as no checkpoint save of the run has raised, the
\* records the run has written since its last checkpoint save number at most
\* BATCH_SIZE, and fewer than BATCH_SIZE between two rows; in any case they
\* number at most BATCH_SIZE plus the failures that occurred, since a save
\* that raises leaves the count of the batch standing and the save is tried
\* again only after the next record
C26_BoundedUnsavedTail ==
  (prog = "annot" /\ pc \in {"item", "request", "parse", "written", "done"}) =>
    /\ Cardinality(UnsavedTail) <= ANNOT_BATCH_SIZE + faults
    /\ batch_counter < ANNOT_BATCH_SIZE =>
         /\ Cardinality(UnsavedTail) <= ANNOT_BATCH_SIZE
         /\ pc \in {"item", "request", "parse"} =>
              Cardinality(UnsavedTail) = batch_counter
    /\ pc = "done" => UnsavedTail = {}

\* C26, witness: BATCH_SIZE records are written and the save that covers them
\* is yet to come
C26_Witness ==
  /\ prog = "annot" /\ pc = "written"
  /\ Cardinality(UnsavedTail) = ANNOT_BATCH_SIZE
  /\ batch_counter = ANNOT_BATCH_SIZE - 1

\* C26 (as stated): at every point of an annotation run the records written
\* since the last checkpoint save number at most BATCH_SIZE
C26_AsStated ==
  prog = "annot" => Cardinality(UnsavedTail) <= ANNOT_BATCH_SIZE

\* the rows of emails.csv that hold a record of message m of archive u: those
\* the current run appended, and those that were there when it started
NewRecordsOf(u, m) ==
  {i \in 1..Len(emails_csv.rows) :
     /\ i > Len(emails_csv.rows) - appended
     /\ emails_csv.rows[i].kind = "record"
     /\ emails_csv.rows[i].body.msg = message_number(u, m)}

OldRecordsOf(u, m) ==
  {i \in 1..Len(emails_csv.rows) :
     /\ i <= Len(emails_csv.rows) - appended
     /\ emails_csv.rows[i].kind = "record"
     /\ emails_csv.rows[i].body.msg = message_number(u, m)}

\* a run of the archive extraction that started from nothing (every enumerated
\* archive remaining, the count at 0) has come to its normal end with no
\* failure
MboxRanFromNothing ==
  /\ prog = "mbox" /\ pc = "done" /\ clean
  /\ remaining_zips = zip_files
  /\ processed_count = appended

\* C27: when the loop over the archives has ended, the checkpoint file is
\* gone, whether or not an archive was skipped or abandoned; within a run the
\* loop only moves forward over a fixed list without repeats, so that an
\* archive left behind is not taken up again; a run that finds no checkpoint
\* takes every enumerated archive as remaining and counts from 0; and such a
\* run appends one record for every message of every readable archive, next
\* to the records that were in the file already
C27_CheckpointRemovedAtLoopEnd ==
  /\ []((prog = "mbox" /\ pc = "done") => ~mbox_checkpoint.exists)
  /\ [][(prog = "mbox" /\ pc \in {"unit", "mbox"} /\ pc' \in {"unit", "mbox", "done"}) =>
          /\ remaining_zips' = remaining_zips
          /\ NoRepeat(remaining_zips)
          /\ zip_index' >= zip_index
          /\ pc' = "done" => zip_index = Len(remaining_zips)]_vars
  /\ [][(prog = "mbox" /\ pc = "start" /\ pc' = "unit" /\ ~mbox_checkpoint.exists) =>
          /\ remaining_zips' = zip_files
          /\ processed_zips' = <<>>
          /\ processed_count' = 0]_vars
  /\ [](MboxRanFromNothing =>
          \A u \in 1..Len(zips) : \A m \in 1..zips[u].count :
            /\ Cardinality(NewRecordsOf(u, m)) = 1
            /\ run = 2 /\ faults = 0 => Cardinality(OldRecordsOf(u, m)) = 1)

\* C27, witness: a first run skipped a corrupt archive, completed the others
\* and removed the checkpoint; the second run has ended as well, and every
\* message of the completed archives has two records in the file
C27_Witness ==
  /\ prog = "mbox" /\ pc = "done" /\ run = 2 /\ faults = 0
  /\ ~mbox_checkpoint.exists
  /\ \E u \in 1..Len(zips) : zips[u].corrupt
  /\ \E u \in 1..Len(zips) :
       /\ ~zips[u].corrupt
       /\ \A m \in 1..zips[u].count :
            /\ Cardinality(NewRecordsOf(u, m)) = 1
            /\ Cardinality(OldRecordsOf(u, m)) = 1

\* the checkpoint file of the IMAP extraction holds a sample that is not empty
SampleSaved == email_checkpoint.exists /\ email_checkpoint.sampled_ids # <<>>

\* C28: a run of the IMAP extraction that finds a checkpoint with a sample
\* that is not empty takes exactly that sample as its work set and goes
\* straight to the batches: it draws no new sample and leaves the output file
\* as it is; in the batch loop the sample never changes and is the one the
\* checkpoint file holds; and as long as the checkpoint file holds a sample,
\* every save writes that same sample, and the rows of the output file are
\* only added to
C28_StableWorkSet ==
  /\ [][(prog = "imap" /\ pc = "start" /\ SampleSaved /\ pc' # "killed") =>
          /\ sampled_ids' = MapSeq(encode, email_checkpoint.sampled_ids)
          /\ pc' \in {"batch", "returned"}
          /\ Range(remaining_ids') \subseteq Range(sampled_ids')
          /\ emails_csv' = emails_csv
          /\ email_checkpoint' = email_checkpoint]_vars
  /\ []((prog = "imap" /\ pc \in {"batch", "append", "save", "close"}) =>
          /\ sampled_ids # <<>>
          /\ SampleSaved => email_checkpoint.sampled_ids = MapSeq(decode, sampled_ids))
  /\ [][(prog = "imap" /\ pc \in {"batch", "append", "save", "close", "finish"}
          /\ pc' # "killed") => sampled_ids' = sampled_ids]_vars
  /\ [][(prog = "imap" /\ SampleSaved) =>
          /\ email_checkpoint'.exists =>
               email_checkpoint'.sampled_ids = email_checkpoint.sampled_ids
          /\ IsPrefix(emails_csv.rows, emails_csv'.rows)]_vars

\* C28, witness: a second run that loaded a checkpoint with completed ids has
\* appended records and saved the checkpoint, which holds the sample of the
\* first run, and the output file has its one header row
C28_Witness ==
  /\ prog = "imap" /\ run = 2 /\ pc = "close"
  /\ run_start.loaded /\ run_start.completed # {}
  /\ appended > 0
  /\ SampleSaved
  /\ email_checkpoint.sampled_ids = MapSeq(decode, sampled_ids)
  /\ Len(email_checkpoint.processed_ids) > Cardinality(run_start.completed)
  /\ OneHeaderRow

\* the rows of emails.csv the current run appended
NewRows == {i \in 1..Len(emails_csv.rows) : i > Len(emails_csv.rows) - appended}

\* the rows of emails.csv that hold a record with a synthesized id
NoIdRows ==
  {i \in 1..Len(emails_csv.rows) :
     emails_csv.rows[i].kind = "record" /\ emails_csv.rows[i].message_id.type = "no-id"}

\* the archive the loop of main is at, and the count main had when it took
\* the archive up
InFlightUnit == remaining_zips[zip_index + 1]
CountAtUnitStart == processed_count - batch_start

\* C29: among the records one run of the archive extraction has appended, two
\* records with the same synthesized id are records of the same message,
\* whether the messages are of one archive or of several and whether or not a
\* batch was tried again; while an archive is in flight, the checkpoint file
\* names it and holds the count the run had when it took the archive up, and
\* the synthesized id of message m of the archive is that count plus m - 1;
\* so a second run that takes up the archive in flight gives every message
\* without a Message-ID the id the first run gave it
C29_SynthesizedIdsUniqueAndStable ==
  prog = "mbox" =>
    /\ \A i, j \in NewRows \cap NoIdRows :
         emails_csv.rows[i].message_id = emails_csv.rows[j].message_id =>
           emails_csv.rows[i].body.msg = emails_csv.rows[j].body.msg
    /\ pc = "mbox" =>
         /\ mbox_checkpoint.exists
         /\ mbox_checkpoint.current_zip = InFlightUnit
         /\ mbox_checkpoint.processed_count = CountAtUnitStart
         /\ \A m \in 1..MsgsPerUnit : \A i \in NewRecordsOf(InFlightUnit, m) :
              ~has_message_id(InFlightUnit, m) =>
                emails_csv.rows[i].message_id = NoId(CountAtUnitStart + m - 1)
    /\ (pc = "mbox" /\ run = 2 /\ zip_index = 0) =>
         \A m \in 1..MsgsPerUnit :
           \A i \in NewRecordsOf(InFlightUnit, m) \cup OldRecordsOf(InFlightUnit, m) :
             ~has_message_id(InFlightUnit, m) =>
               emails_csv.rows[i].message_id = NoId(CountAtUnitStart + m - 1)

\* C29, witness: the first run completed an archive and was killed in the
\* next one; the second run has taken that archive up again from a count
\* above 0, and a message without a Message-ID has a record of either run,
\* both with the same synthesized id; the run has also appended records with
\* synthesized ids of two different messages
C29_Witness ==
  /\ prog = "mbox" /\ pc = "mbox" /\ run = 2 /\ zip_index = 0
  /\ CountAtUnitStart > 0
  /\ \E m \in 1..MsgsPerUnit :
       /\ ~has_message_id(InFlightUnit, m)
       /\ \E i \in OldRecordsOf(InFlightUnit, m) : \E j \in NewRecordsOf(InFlightUnit, m) :
            /\ emails_csv.rows[i].message_id = emails_csv.rows[j].message_id
            /\ emails_csv.rows[i].message_id.type = "no-id"
  /\ \E i, j \in NewRows \cap NoIdRows :
       emails_csv.rows[i].body.msg # emails_csv.rows[j].body.msg

====
